---- MODULE Spec2Model ----
(***************************************************************************)
(* Model of the pinia api-toolkit plugin (ApiRequest, ApiRequestDebouncer,  *)
(* the tracking-key helpers and the wrapped store actions).                 *)
(*                                                                          *)
(* Spec         the request debouncer as a state machine: wrapped-action    *)
(*              dispatches, transport answers, asynchronous hook            *)
(*              completions, returns to the caller.                         *)
(* FairSpec     Spec under fairness: every call is answered, every awaited  *)
(*              hook settles.                                               *)
(* StoreSpec    the same with getRequestStatus and clearRequestStatus, for  *)
(*              descriptions without hooks.                                 *)
(* ConflictSpec the same with the registry of conflicts kept for retry.     *)
(* KeySpec      the two tracking-key functions applied to bounded inputs.   *)
(* KeyPairSpec  the same functions applied to two requests.                 *)
(* EdgeSpec     the debouncer with descriptions lacking a target, onFail    *)
(*              hooks declared async, and store actions not declared async. *)
(* ApiSpec      one call through an axios client of apis.ts: the request    *)
(*              interceptor, the answer, the response interceptor chain.    *)
(* CallSpec     the axios call triggerApiRequest builds from a description. *)
(* AuthSpec     the token bookkeeping of the auth store (auth.store.ts).    *)
(***************************************************************************)
EXTENDS Integers, Sequences, FiniteSets, TLC

VARIABLES
    table,      \* store.apiRequestDebouncers: tracking key -> debouncer object
    debs,       \* the ApiRequestDebouncer objects still reachable, each holding `request`
    disp,       \* one entry per call of a wrapped store action
    objs,       \* the params objects handed to ApiRequest: body and requestUlid
    deferred,   \* the DeferredPromise created by each dispatch
    clock,      \* the value the next `new Date()` returns
    nDisp,      \* wrapped-action calls made so far
    kArgs,      \* KeySpec: action name and discriminators under test
    kOut,       \* KeySpec: the keys computed from kArgs
    kPair,      \* KeyPairSpec: a second action name and discriminators, and their keys
    conflicts,  \* ConflictSpec: the conflicts kept for retry, by request ulid
    api,        \* ApiSpec, CallSpec: one call through an axios client of apis.ts
    auth        \* AuthSpec: the auth store's tokens and user, and local storage

vars == <<table, debs, disp, objs, deferred, clock, nDisp, kArgs, kOut, kPair, conflicts, api, auth>>
dvars == <<table, debs, disp, objs, deferred, clock, nDisp, conflicts>>
kvars == <<kArgs, kOut, kPair, api, auth>>

(***************************************************************************)
(* Bounds                                                                   *)
(***************************************************************************)
MaxDispatch == 2        \* wrapped-action calls per behaviour of Spec
MaxStoreDispatch == 2   \* wrapped-action calls per behaviour of StoreSpec
MaxKeyArgs == 2         \* discriminators per key in KeySpec
MaxConflictDispatch == 2 \* wrapped-action calls, retries included, per behaviour of ConflictSpec
MaxEdgeDispatch == 1    \* action calls per behaviour of EdgeSpec
MaxTokens == 2          \* auth tokens in the auth store in ApiSpec

(***************************************************************************)
(* Tracking keys                                                            *)
(***************************************************************************)
TRACKING_KEY_SEPARATOR == "%"

\* RawRequestStatusKeyArg = string | number | undefined | null
Str(s) == [t |-> "string", s |-> s, n |-> 0]
Num(n) == [t |-> "number", s |-> "", n |-> n]
Null == [t |-> "null", s |-> "", n |-> 0]
Undefined == [t |-> "undefined", s |-> "", n |-> 0]

\* JS truthiness of a key argument, as used by `if (x)` and _.compact
Truthy(a) ==
    CASE a.t = "string" -> a.s # ""
      [] a.t = "number" -> a.n # 0
      [] OTHER -> FALSE

\* Array.prototype.join's conversion of one element: null and undefined give ""
JoinElem(a) ==
    CASE a.t = "string" -> a.s
      [] a.t = "number" -> ToString(a.n)
      [] OTHER -> ""

RECURSIVE Join(_)
Join(seq) ==
    IF Len(seq) = 0 THEN ""
    ELSE IF Len(seq) = 1 THEN JoinElem(seq[1])
    ELSE JoinElem(seq[1]) \o TRACKING_KEY_SEPARATOR \o Join(Tail(seq))

\* _.compact
Compact(seq) == SelectSeq(seq, Truthy)

\* keyRequestStatusBy is absent, a scalar or an array
NoKeyBy == [isArray |-> FALSE, present |-> FALSE, scalar |-> Undefined, arr |-> <<>>]
ScalarKeyBy(a) == [isArray |-> FALSE, present |-> TRUE, scalar |-> a, arr |-> <<>>]
ArrayKeyBy(seq) == [isArray |-> TRUE, present |-> TRUE, scalar |-> Undefined, arr |-> seq]

getTrackingKey(actionName, keyBy) ==
    LET truthy == keyBy.present /\ (keyBy.isArray \/ Truthy(keyBy.scalar))
        trackingKeyArray ==
            IF ~truthy THEN <<Str(actionName)>>
            ELSE IF keyBy.isArray THEN <<Str(actionName)>> \o keyBy.arr
            ELSE <<Str(actionName), keyBy.scalar>>
    IN  Join(trackingKeyArray)

getKey(requestKey, keyedByArgs) ==
    Join(<<Str(requestKey)>> \o Compact(keyedByArgs))

(***************************************************************************)
(* KeySpec: both key functions applied to one action name and one list of   *)
(* discriminators, passed as keyRequestStatusBy on the dispatch side and as *)
(* keyedByArgs on the read side                                             *)
(***************************************************************************)
KeyArgValues == {Str("x"), Str(""), Num(0), Num(1), Null, Undefined}
KeyActionNames == {"LOGIN", "GET_THING"}

RECURSIVE SeqsUpTo(_, _)
SeqsUpTo(S, n) ==
    IF n = 0 THEN {<< >>}
    ELSE LET shorter == SeqsUpTo(S, n - 1)
         IN  shorter \cup { Append(q, x) : q \in shorter, x \in S }

NoKeyArgs == [actionName |-> "", form |-> "none", args |-> << >>]
NoKeys == [computed |-> FALSE, tracking |-> "", read |-> ""]

\* an action passes its discriminators as an array, or a single one bare
KeyInputs ==
    [actionName : KeyActionNames, form : {"array"}, args : SeqsUpTo(KeyArgValues, MaxKeyArgs)]
    \cup { [actionName |-> a, form |-> "scalar", args |-> <<x>>] :
              a \in KeyActionNames, x \in KeyArgValues }
    \cup { [actionName |-> a, form |-> "none", args |-> << >>] : a \in KeyActionNames }

KeyByOf(in) ==
    CASE in.form = "array" -> ArrayKeyBy(in.args)
      [] in.form = "scalar" -> ScalarKeyBy(in.args[1])
      [] OTHER -> NoKeyBy

\* KeyPairSpec: two requests' action names and discriminators; a discriminator
\* is any string, so it may hold the separator
PairArgValues == {Str("a"), Str("b"), Str("a%b"), Str(""), Null}
NoPair == [args |-> NoKeyArgs, tracking |-> "", read |-> ""]
PairInputs ==
    [actionName : KeyActionNames, form : {"array"}, args : SeqsUpTo(PairArgValues, MaxKeyArgs)]
    \cup { [actionName |-> a, form |-> "scalar", args |-> <<x>>] :
              a \in KeyActionNames, x \in PairArgValues }

(***************************************************************************)
(* Request descriptions, transport answers, records                         *)
(***************************************************************************)
Bodies == {"a", "b"}                      \* contents of `params`
ActionNames == {"LOGIN"}
KeyBys == {NoKeyBy}

\* ApiRequestDescription: which optional members the action supplied
HookProfiles ==
    { [optimistic |-> FALSE, onNewChangeSet |-> FALSE, onSuccess |-> FALSE, onFail |-> FALSE],
      [optimistic |-> TRUE, onNewChangeSet |-> TRUE, onSuccess |-> TRUE, onFail |-> TRUE] }
Urls == {"string"}
\* a segment list, a string, or neither
EdgeUrls == {"pattern", "string", "missing"}

Descriptors ==
    [actionName : ActionNames, keyBy : KeyBys, hooks : HookProfiles, url : Urls]

\* what the axios instance can do with one call
NoResponse == [kind |-> "none", status |-> 0, force |-> "", data |-> ""]
OkResponses ==
    { [kind |-> "ok", status |-> 200, force |-> f, data |-> "body"] : f \in {"", "cs-123"} }
ErrorStatuses == {500}
HttpErrors ==
    { [kind |-> "http", status |-> s, force |-> "", data |-> "errbody"] : s \in ErrorStatuses }
NetworkError == [kind |-> "network", status |-> 0, force |-> "", data |-> ""]
Responses == OkResponses \cup HttpErrors \cup {NetworkError}

\* the value caught by `catch (err: any)`
NoErr == [kind |-> "none", hasResponse |-> FALSE, status |-> 0, data |-> ""]
AxiosErrOf(r) ==
    [kind |-> "axios", hasResponse |-> (r.kind = "http"), status |-> r.status, data |-> r.data]
HookErr == [kind |-> "error", hasResponse |-> FALSE, status |-> 0, data |-> ""]
TypeErr == [kind |-> "typeerror", hasResponse |-> FALSE, status |-> 0, data |-> ""]

\* RawApiRequestStatus.error
NoError == [kind |-> "none", status |-> 0, data |-> ""]

\* `request` of a debouncer; exists = FALSE is `undefined`
NoRequest ==
    [exists |-> FALSE, requestedAt |-> 0, receivedAt |-> 0, lastSuccessAt |-> 0,
     payload |-> 0, error |-> NoError, completed |-> 0]

\* variant: a debouncer is built holding a record
NewDebRequested ==
    [built |-> TRUE,
     request |-> [exists |-> TRUE, requestedAt |-> 0, receivedAt |-> 0, lastSuccessAt |-> 0,
                  payload |-> 1, error |-> [kind |-> "none", status |-> 0, data |-> ""],
                  completed |-> 0]]

\* an ApiRequestDebouncer object: built = FALSE is a slot no live object occupies
NoDeb == [built |-> FALSE, request |-> NoRequest]
NewDeb == [built |-> TRUE, request |-> NoRequest]

\* DeferredPromise
NoDeferred == [created |-> FALSE, resolves |-> 0, isError |-> FALSE, data |-> "", err |-> NoErr]

\* ApiRequest.rawSuccess / rawResponseData / rawResponseError; set = FALSE is rawSuccess undefined
NoResult == [set |-> FALSE, rawSuccess |-> FALSE, rawResponseData |-> "", rawResponseError |-> NoErr]

NoObj == [body |-> "", ulid |-> 0]

NewDisp ==
    [pc |-> "new", key |-> "", deb |-> 0, obj |-> 0,
     hooks |-> [optimistic |-> FALSE, onNewChangeSet |-> FALSE, onSuccess |-> FALSE, onFail |-> FALSE],
     ulid |-> 0, rollbackFn |-> FALSE, resp |-> NoResponse,
     log |-> <<>>, raw |-> NoResult, awaiting |-> 0, thrown |-> "",
     span |-> "none", spanStatus |-> -1, ctxArg |-> "", replaced |-> FALSE,
     found |-> 0, foundEqual |-> FALSE, marked |-> "none", seen |-> FALSE,
     \* url: the description's target; failWork: the promise an async onFail returned;
     \* actionResult, ret: what a non-async action returned and what its wrapper returned
     url |-> "", failWork |-> "none", actionResult |-> "", ret |-> "",
     rollbackThrew |-> FALSE]

DispIds == 1..MaxDispatch
\* one debouncer can sit in the table while every dispatch holds a detached one
DebIds == 1..(MaxDispatch + 1)

\* _.isEqual on two params objects
IsEqual(p, q) == p.body = q.body /\ p.ulid = q.ulid

(***************************************************************************)
(* apis.ts: the three axios clients and their interceptors, and the token   *)
(* getters of the auth store                                                *)
(***************************************************************************)
Clients == {"sdf", "auth", "moduleIndex"}
WorkspacePks == {"w1", "w2", "w3"}
NoWorkspace == "none"
\* the token stored for a workspace; "" stands for undefined
TokenOf(pk) == "jwt-" \o pk

\* state.tokens: workspace pks in insertion order, each holding TokenOf(pk)
TokenStores ==
    { t \in SeqsUpTo(WorkspacePks, MaxTokens) :
        \A i, j \in DOMAIN t : i # j => t[i] # t[j] }

\* auth.store.ts selectedWorkspaceToken
selectedWorkspaceToken(tokens, selectedWorkspacePk) ==
    IF selectedWorkspacePk # NoWorkspace /\ \E i \in DOMAIN tokens : tokens[i] = selectedWorkspacePk
    THEN TokenOf(selectedWorkspacePk)
    ELSE ""

\* variant: the first stored token, whatever workspace is selected
firstStoredToken(tokens, selectedWorkspacePk) ==
    IF Len(tokens) > 0 THEN TokenOf(tokens[1]) ELSE ""

\* auth.store.ts selectedOrDefaultAuthToken: this.selectedWorkspaceToken || _.values(this.tokens)[0]
selectedOrDefaultAuthToken(tokens, selectedWorkspacePk) ==
    IF selectedWorkspaceToken(tokens, selectedWorkspacePk) # ""
    THEN selectedWorkspaceToken(tokens, selectedWorkspacePk)
    ELSE IF Len(tokens) > 0 THEN TokenOf(tokens[1]) ELSE ""

\* the request interceptor of all three clients
injectBearerTokenAuth(config, tokens, selectedWorkspacePk) ==
    LET token == selectedOrDefaultAuthToken(tokens, selectedWorkspacePk) IN
    IF token # "" THEN [config EXCEPT !.authorization = "Bearer " \o token] ELSE config

\* interceptors.request.use(...): what each client has registered
RequestInterceptors(client) == {"injectBearerTokenAuth"}

\* what the server, a proxy or the network answers
ApiStatuses == {200, 404, 409, 500, 502, 503, 504}
ContentTypes == {"application/json", "text/html", "absent"}
NoAnswer == [hasResponse |-> FALSE, status |-> 0, contentType |-> "absent", force |-> ""]
ApiAnswers ==
    [hasResponse : {TRUE}, status : ApiStatuses, contentType : ContentTypes,
     force : {"", "cs-123"}] \cup {NoAnswer}

\* `options` of a description are spread into the axios call; without a validateStatus of
\* their own the client's default decides which answers fulfil the call
ValidateStatusOptions == {"default", "acceptAll"}
validateStatus(option, status) ==
    option = "acceptAll" \/ (status >= 200 /\ status < 300)

\* what the call has caused so far, and how its promise stands
NoEffects ==
    [outcome |-> "pending", tracked |-> << >>, redirect |-> FALSE, toasts |-> << >>,
     activeChangeset |-> ""]

handleForcedChangesetRedirection(answer, st) ==
    IF answer.force # "" THEN [st EXCEPT !.activeChangeset = answer.force] ELSE st

handleProxyTimeouts(answer, st) ==
    IF answer.status = 404 /\ answer.contentType # "application/json"
    THEN [st EXCEPT !.tracked = Append(@, "api_404_timeout"), !.redirect = TRUE]
    ELSE st

\* variant: the handler hands the error on as a value
handle500Resolves(answer, st) ==
    IF answer.hasResponse /\ answer.status = 500
    THEN [st EXCEPT !.toasts = Append(@, "FiveHundredError"), !.outcome = "fulfilled"]
    ELSE [st EXCEPT !.outcome = "fulfilled"]

handle500(answer, st) ==
    IF answer.hasResponse /\ answer.status = 500
    THEN [st EXCEPT !.toasts = Append(@, "FiveHundredError"), !.outcome = "rejected"]
    ELSE [st EXCEPT !.outcome = "rejected"]

handleOutageModes(answer, st) ==
    IF answer.hasResponse /\ answer.status = 503
    THEN [st EXCEPT !.toasts = Append(@, "MaintenanceMode"), !.outcome = "rejected"]
    ELSE IF answer.hasResponse /\ (answer.status = 502 \/ answer.status = 504)
    THEN [st EXCEPT !.toasts = Append(@, "UnscheduledDowntime"), !.outcome = "rejected"]
    ELSE [st EXCEPT !.outcome = "rejected"]

\* interceptors.response.use(onFulfilled, onRejected), in registration order
ResponseInterceptors(client) ==
    IF client = "sdf"
    THEN << [fulfilled |-> "handleProxyTimeouts", rejected |-> "handle500"],
            [fulfilled |-> "handleForcedChangesetRedirection", rejected |-> "handleOutageModes"] >>
    ELSE << >>

ApplyHandler(h, answer, st) ==
    CASE h = "handleProxyTimeouts" -> handleProxyTimeouts(answer, st)
      [] h = "handle500" -> handle500(answer, st)
      [] h = "handleForcedChangesetRedirection" -> handleForcedChangesetRedirection(answer, st)
      [] h = "handleOutageModes" -> handleOutageModes(answer, st)

\* promise.then(onFulfilled, onRejected) for each registered pair
RECURSIVE RunChain(_, _, _)
RunChain(pairs, answer, st) ==
    IF pairs = << >> THEN st
    ELSE LET h == IF st.outcome = "fulfilled" THEN Head(pairs).fulfilled
                  ELSE Head(pairs).rejected
         IN  RunChain(Tail(pairs), answer, ApplyHandler(h, answer, st))

(***************************************************************************)
(* The axios call triggerApiRequest builds from a description               *)
(***************************************************************************)
Methods == {"get", "patch", "post", "put", "delete"}
\* what a description can hold: method or none, url, params contents, formData or none,
\* headers or none
CallDescriptions ==
    [method : Methods \cup {"absent"}, url : {"string", "pattern"}, params : Bodies,
     formData : BOOLEAN, headers : BOOLEAN]
NoCallDescription ==
    [method |-> "", url |-> "", params |-> "", formData |-> FALSE, headers |-> FALSE]
NoCall == [method |-> "", url |-> "", data |-> "none", query |-> "none", contentType |-> ""]

\* ApiRequest constructor: if (!this.requestSpec.method) this.requestSpec.method = "get"
ApiRequestOf(desc) ==
    IF desc.method = "absent" THEN [desc EXCEPT !.method = "get"] ELSE desc

\* variant: params are sent as the body whatever the method
apiCallParamsAsData(requestSpec) ==
    [method |-> requestSpec.method, url |-> requestSpec.url,
     data |-> requestSpec.params, query |-> "none", contentType |-> "default"]

\* lines 663-695: the argument of api(...); data is the body, query the `params` member
apiCall(requestSpec) ==
    IF requestSpec.method = "get"
    THEN [method |-> "get", url |-> requestSpec.url,
          data |-> "none", query |-> requestSpec.params, contentType |-> "default"]
    ELSE IF requestSpec.formData
    THEN [method |-> requestSpec.method, url |-> requestSpec.url,
          data |-> "formData", query |-> requestSpec.params,
          contentType |-> "multipart/form-data"]
    ELSE [method |-> requestSpec.method, url |-> requestSpec.url,
          data |-> requestSpec.params, query |-> "none", contentType |-> "default"]

NoConfig == [authorization |-> ""]
NoApi ==
    [phase |-> "none", client |-> "", tokens |-> << >>, selected |-> NoWorkspace,
     validate |-> "", answer |-> NoAnswer, config |-> NoConfig, fx |-> NoEffects,
     desc |-> NoCallDescription, call |-> NoCall]
ApiInputs ==
    { [NoApi EXCEPT !.phase = "built", !.client = c, !.tokens = t, !.selected = w,
                    !.validate = v, !.answer = a] :
        c \in Clients, t \in TokenStores, w \in WorkspacePks \cup {NoWorkspace},
        v \in ValidateStatusOptions, a \in ApiAnswers }

(***************************************************************************)
(* auth.store.ts: the tokens in the store, the tokens in local storage,     *)
(* initFromStorage, localLogout, finishUserLogin                            *)
(***************************************************************************)
AuthPks == {"w1", "w2"}
AuthTokens == {"jwt-a", "jwt-b"}
\* jwtDecode(token).user_pk
user_pk(token) == IF token = "jwt-a" THEN "u-a" ELSE "u-b"

\* a Record<string, string>: its entries in key order, no key twice
TokenMaps ==
    { t \in SeqsUpTo([pk : AuthPks, token : AuthTokens], Cardinality(AuthPks)) :
        \A i, j \in DOMAIN t : i # j => t[i].pk # t[j].pk }

\* target[key] = value on a plain object: an existing key keeps its place
AssignKey(target, key, value) ==
    IF \E i \in DOMAIN target : target[i].pk = key
    THEN [i \in DOMAIN target |->
            IF target[i].pk = key THEN [pk |-> key, token |-> value] ELSE target[i]]
    ELSE Append(target, [pk |-> key, token |-> value])

\* this.$patch({tokens: patch}): pinia merges a plain-object member of the patch into the
\* state's plain object key by key (mergeReactiveObjects); keys absent from the patch stay
RECURSIVE patchTokens(_, _)
patchTokens(target, patch) ==
    IF patch = << >> THEN target
    ELSE patchTokens(AssignKey(target, Head(patch).pk, Head(patch).token), Tail(patch))

\* local storage under "si-auth": nothing, text that is not JSON, or a stringified token map
StoredAbsent == [kind |-> "absent", tokens |-> << >>]
StoredGarbage == [kind |-> "garbage", tokens |-> << >>]
Stringified(tokens) == [kind |-> "json", tokens |-> tokens]
Storages == {StoredAbsent, StoredGarbage} \cup { Stringified(t) : t \in TokenMaps }
\* JSON.parse(storage.getItem(...) || "{}") inside try/catch
ParsedTokens(stored) == IF stored.kind = "json" THEN stored.tokens ELSE << >>

\* what awaiting RESTORE_AUTH gives: the wrapped action throws, or returns with a result
RestoreOutcomes ==
    { [threw |-> TRUE, success |-> FALSE, hasErrBody |-> FALSE, code |-> "absent",
       message |-> "absent"],
      [threw |-> FALSE, success |-> TRUE, hasErrBody |-> FALSE, code |-> "absent",
       message |-> "absent"] }
    \cup [threw : {FALSE}, success : {FALSE}, hasErrBody : {TRUE},
          code : {"WORKSPACE_NOT_INITIALIZED", "OTHER", "absent"},
          message : {"relation \"users\" does not exist", "unauthorized", "absent"}]
    \cup { [threw |-> FALSE, success |-> FALSE, hasErrBody |-> FALSE, code |-> "absent",
            message |-> "absent"] }
\* errMessage.includes("relation") && errMessage.includes("does not exist")
NamesMissingRelation(message) == message = "relation \"users\" does not exist"

NoOp ==
    [op |-> "none", calls |-> << >>, alert |-> FALSE, loggedOut |-> FALSE, threw |-> FALSE,
     outcome |-> "none", hadStored |-> FALSE, redirected |-> FALSE]
NoAuth == [tokens |-> << >>, stored |-> StoredAbsent, userPk |-> "null", last |-> NoOp]

\* userIsLoggedIn: !_.isEmpty(state.tokens)
userIsLoggedIn(a) == a.tokens # << >>

\* localLogout's effect on the store and on local storage
LoggedOut(a) ==
    [a EXCEPT !.stored = StoredAbsent,
              !.tokens = patchTokens(a.tokens, << >>),
              !.userPk = "null"]

Init ==
    /\ table = << >>
    /\ debs = [b \in DebIds |-> NoDeb]
    /\ disp = [d \in DispIds |-> NewDisp]
    /\ objs = [o \in DispIds |-> NoObj]
    /\ deferred = [d \in DispIds |-> NoDeferred]
    /\ clock = 1
    /\ nDisp = 0
    /\ kArgs = NoKeyArgs
    /\ kOut = NoKeys
    /\ kPair = NoPair
    /\ conflicts = << >>
    /\ api = NoApi
    /\ auth = NoAuth

(***************************************************************************)
(* Reachability.  Once wrappedActionFn has returned or thrown, its caller   *)
(* looks at the ApiRequest and drops it; a debouncer that is neither in the *)
(* table nor the `this` of a running call, and a settled promise nobody     *)
(* awaits, are garbage.  Every step starts from the reachable part.         *)
(***************************************************************************)
Finished(r) == r.pc \in {"done", "threw"}
Running(r) == r.pc \notin {"new", "done", "threw"}

Drop(r) ==
    IF Finished(r)
    THEN [NewDisp EXCEPT !.pc = r.pc, !.key = r.key, !.obj = r.obj, !.ulid = r.ulid,
                         !.found = r.found, !.foundEqual = r.foundEqual,
                         !.marked = r.marked, !.seen = TRUE, !.failWork = r.failWork,
                         !.raw = [NoResult EXCEPT !.set = r.raw.set,
                                                  !.rawSuccess = r.raw.rawSuccess]]
    ELSE r
Kept == [d \in DispIds |-> Drop(disp[d])]

InTable(b) == \E k \in DOMAIN table : table[k] = b
LiveDebs ==
    [b \in DebIds |->
        IF InTable(b) \/ (\E d \in DispIds : Running(disp[d]) /\ disp[d].deb = b)
        THEN debs[b] ELSE NoDeb]

Awaited(d) == \E w \in DispIds : Running(disp[w]) /\ disp[w].awaiting = d
LiveDeferred ==
    [d \in DispIds |->
        IF Awaited(d) \/ deferred[d].resolves = 0 THEN deferred[d]
        ELSE [NoDeferred EXCEPT !.created = TRUE, !.resolves = deferred[d].resolves,
                                !.isError = deferred[d].isError]]

(***************************************************************************)
(* wrappedActionFn -> fireActionResult -> triggerApiRequest, up to the      *)
(* first suspension                                                         *)
(***************************************************************************)
\* store.apiRequestDebouncers[trackingKey] ??= new ApiRequestDebouncer(config.api)
FreshDeb == CHOOSE b \in DebIds : ~LiveDebs[b].built /\ \A c \in 1..(b - 1) : LiveDebs[c].built
DebOf(key) == IF key \in DOMAIN table THEN table[key] ELSE FreshDeb
TableWith(key) == IF key \in DOMAIN table THEN table ELSE (key :> FreshDeb) @@ table
DebsWith(key) == IF key \in DOMAIN table THEN LiveDebs ELSE [LiveDebs EXCEPT ![FreshDeb] = NewDeb]

\* params contents are named in order of first use
UsedBodies == { objs[o].body : o \in DispIds } \ {""}
NextBodies == IF UsedBodies = {} THEN {"a"} ELSE Bodies

\* variant: a pending record deduplicates whatever the params are
IsDuplicateAnyPayload(req, params) == req.exists /\ req.receivedAt = 0

\* the dedup test at the head of triggerApiRequest
IsDuplicate(req, params) ==
    /\ req.exists
    /\ req.receivedAt = 0
    /\ IsEqual(objs[req.payload], params)

\* variant: the new record does not carry lastSuccessAt over
NewRequestForgetsSuccess(req, o, d) ==
    [exists |-> TRUE, requestedAt |-> clock, receivedAt |-> 0,
     lastSuccessAt |-> 0, payload |-> o,
     error |-> NoError, completed |-> d]

\* variant: the record's payload is not the params object that was dispatched
NewRequestOtherPayload(req, o, d) ==
    [exists |-> TRUE, requestedAt |-> clock, receivedAt |-> 0,
     lastSuccessAt |-> req.lastSuccessAt, payload |-> d,
     error |-> NoError, completed |-> d]

\* variant: the new record carries the old record's error over
NewRequestKeepsError(req, o, d) ==
    [exists |-> TRUE, requestedAt |-> clock, receivedAt |-> 0,
     lastSuccessAt |-> req.lastSuccessAt, payload |-> o,
     error |-> req.error, completed |-> d]

\* lines 568-584: the new record
NewRequest(req, o, d) ==
    [exists |-> TRUE, requestedAt |-> clock, receivedAt |-> 0,
     lastSuccessAt |-> req.lastSuccessAt, payload |-> o,
     error |-> NoError, completed |-> d]

\* variant: every description is taken to name a target
HasUrlAlways(spec) == TRUE

\* lines 607-615: url is a segment list or a string; anything else throws
HasUrl(spec) == spec.url \in {"string", "pattern"}

Dispatch(spec, o, body, optThrows) ==
    LET d == nDisp + 1
        key == getTrackingKey(spec.actionName, spec.keyBy)
        b == DebOf(key)
        ds == DebsWith(key)
        req == ds[b].request
        params == IF o = d THEN [body |-> body, ulid |-> 0] ELSE objs[o]
        pending == req.exists /\ req.receivedAt = 0
        base == [NewDisp EXCEPT !.key = key, !.deb = b, !.obj = o, !.hooks = spec.hooks,
                     !.url = spec.url,
                     \* what the caller met on arrival: the call that created the pending
                     \* record, and whether its caller passed the same params contents
                     !.found = IF pending THEN req.completed ELSE 0,
                     !.foundEqual = pending /\ objs[req.payload].body = body]
    IN
    /\ d \in DispIds
    /\ o \in 1..d
    /\ IF o = d THEN body \in NextBodies ELSE objs[o].body = body
    /\ table' = TableWith(key)
    /\ nDisp' = d
    /\ IF IsDuplicate(req, params)
       THEN \* return this.request.completed?.promise
            /\ disp' = [Kept EXCEPT ![d] = [base EXCEPT !.pc = "dedupWait", !.awaiting = req.completed]]
            /\ debs' = ds
            /\ deferred' = LiveDeferred
            /\ optThrows = FALSE
            /\ UNCHANGED <<objs, clock>>
       ELSE /\ objs' = [objs EXCEPT ![o] = [body |-> body, ulid |-> d]]
            /\ deferred' = [LiveDeferred EXCEPT ![d] = [NoDeferred EXCEPT !.created = TRUE]]
            /\ debs' = [ds EXCEPT ![b].request = NewRequest(req, o, d)]
            /\ clock' = clock + 1
            /\ optThrows => spec.hooks.optimistic
            /\ LET afterOpt == [base EXCEPT !.ulid = d, !.awaiting = d,
                                    !.rollbackFn = spec.hooks.optimistic /\ ~optThrows,
                                    !.log = IF spec.hooks.optimistic THEN <<"optimistic">> ELSE <<>>]
               IN  disp' = [Kept EXCEPT ![d] =
                     IF optThrows THEN [afterOpt EXCEPT !.pc = "threw", !.thrown = "optimistic"]
                     ELSE IF ~HasUrl(spec)
                          THEN [afterOpt EXCEPT !.pc = "threw", !.thrown = "URL is required"]
                     ELSE [afterOpt EXCEPT !.pc = "inflight", !.span = "open",
                                           !.log = Append(afterOpt.log, "call")]]
    /\ UNCHANGED kvars

(***************************************************************************)
(* The rest of triggerApiRequest: what runs when the transport answers and  *)
(* when an awaited hook settles                                             *)
(***************************************************************************)
\* variant: the result is stored as a success whatever the outcome carries
SetResultSuccess(triggerResult) ==
    [set |-> TRUE, rawSuccess |-> TRUE, rawResponseData |-> triggerResult.data,
     rawResponseError |-> NoErr]

\* fireActionResult's use of the value triggerApiRequest returned
SetResult(triggerResult) ==
    IF triggerResult.isError
    THEN [set |-> TRUE, rawSuccess |-> FALSE, rawResponseData |-> "",
          rawResponseError |-> triggerResult.err]
    ELSE [set |-> TRUE, rawSuccess |-> TRUE, rawResponseData |-> triggerResult.data,
          rawResponseError |-> NoErr]

WithLog(r, e) == [r EXCEPT !.log = Append(r.log, e)]

\* outcomes a caller-supplied onFail can have
FailOutcomes == {"nothing", "replacement", "throws"}

\* the same, and an onFail declared async
AsyncFailOutcomes == FailOutcomes \cup {"promise"}

\* variant: the record's error is always the synthesized body
ErrorOfSynthesized(err) == [kind |-> "synthesized", status |-> 0, data |-> "message"]

\* lines 758-775: the error stored on the record
ErrorOf(err) ==
    IF err.hasResponse
    THEN [kind |-> "response", status |-> err.status, data |-> err.data]
    ELSE [kind |-> "synthesized", status |-> 0, data |-> "message"]

\* variant: what onFail returns is ignored
ConvertedNever(err, replaced) == err

\* lines 747-756: onFail's replacement body
Converted(err, replaced) ==
    IF replaced THEN [err EXCEPT !.hasResponse = TRUE, !.data = "replacement"] ELSE err

\* variant: the rollback is never called
CallRollbackNever(r) == r

\* line 744: if (optimisticRollbackFn) optimisticRollbackFn()
CallRollback(r) == IF r.rollbackFn THEN WithLog(r, "rollback") ELSE r
\* variant: the failure handler is never called
CallOnFailNever(r) == r

\* lines 747-748: if (typeof onFail === "function") onFail(err)
CallOnFail(r) == IF r.hooks.onFail THEN WithLog(r, "fail") ELSE r

\* variant: the failure handler first, then the rollback
FailureHooksFailFirst(r) ==
    LET f == IF r.hooks.onFail THEN WithLog(r, "fail") ELSE r
    IN  IF f.rollbackFn THEN WithLog(f, "rollback") ELSE f

\* lines 743-756: the rollback, then the failure handler
FailureHooks(r) == CallOnFail(CallRollback(r))

\* variant: what the rollback throws is swallowed
RollbackPropagatesNever(me, rollbackThrows) == FALSE

\* line 744: the rollback is called outside any try, so what it throws leaves the catch block
RollbackPropagates(me, rollbackThrows) == me.rollbackFn /\ rollbackThrows

\* the catch block (lines 734-785), entered by dispatch d (now `me`) with the caught value err
CatchBlock(d, me, err, rollbackThrows, failOutcome) ==
    LET b == me.deb
        received == [LiveDebs EXCEPT ![b].request.receivedAt = clock]
        \* marked: which of lines 714-715 and 736 this call has run
        r0 == [WithLog(me, "received") EXCEPT
                  !.marked = IF me.marked = "none" THEN "fail" ELSE "okfail",
                  !.rollbackThrew = me.rollbackFn /\ rollbackThrows]
        r1 == CallRollback(r0)
        r2 == FailureHooks(r0)
        \* an async onFail hands back a promise: truthy, so it becomes the body
        promised == me.hooks.onFail /\ failOutcome = "promise"
        replaced == me.hooks.onFail /\ failOutcome \in {"replacement", "promise"}
        err2 == IF promised THEN [Converted(err, replaced) EXCEPT !.data = "promise"]
                ELSE Converted(err, replaced)
        r3 == [WithLog(r2, "resolve") EXCEPT
                  !.replaced = replaced,
                  !.failWork = IF promised THEN "running" ELSE "none"]
        settled == [deferred[d] EXCEPT !.resolves = @ + 1, !.isError = TRUE, !.err = err2]
    IN
    /\ UNCHANGED clock
    /\ (~me.rollbackFn) => rollbackThrows = FALSE
    /\ (~me.hooks.onFail \/ (me.rollbackFn /\ rollbackThrows)) => failOutcome = "nothing"
    /\ IF RollbackPropagates(me, rollbackThrows)
       THEN /\ disp' = [Kept EXCEPT ![d] = [r1 EXCEPT !.pc = "threw", !.thrown = "rollback"]]
            /\ debs' = received
            /\ deferred' = LiveDeferred
       ELSE IF me.hooks.onFail /\ failOutcome = "throws"
       THEN /\ disp' = [Kept EXCEPT ![d] = [r2 EXCEPT !.pc = "threw", !.thrown = "onFail"]]
            /\ debs' = received
            /\ deferred' = LiveDeferred
       ELSE /\ debs' = [received EXCEPT ![b].request.error = ErrorOf(err2)]
            /\ deferred' = [LiveDeferred EXCEPT ![d] = settled]
            /\ disp' = [Kept EXCEPT ![d] =
                    IF err2.hasResponse
                    THEN [r3 EXCEPT !.pc = "done", !.span = "ended", !.spanStatus = err2.status,
                                    !.raw = SetResult(settled)]
                    \* span.setAttributes reads err.response.status of an absent response
                    ELSE [r3 EXCEPT !.pc = "threw", !.thrown = "TypeError"]]

\* completed.resolve({data}), span.end(), return await completed.promise (lines 724-729),
\* then fireActionResult stores the result and wrappedActionFn returns
ResolveSuccess(d, r) ==
    LET settled == [deferred[d] EXCEPT !.resolves = @ + 1, !.isError = FALSE,
                                       !.data = r.resp.data]
    IN
    /\ deferred' = [LiveDeferred EXCEPT ![d] = settled]
    /\ disp' = [Kept EXCEPT ![d] =
            [WithLog(r, "resolve") EXCEPT !.pc = "done", !.span = "ended",
                                           !.spanStatus = r.resp.status,
                                           !.raw = SetResult(settled)]]

\* lines 705-722: mark received, then call onSuccess
MarkReceived(d, r) ==
    LET b == r.deb
        r1 == [WithLog(r, "received") EXCEPT !.marked = "ok"]
    IN
    /\ debs' = [LiveDebs EXCEPT ![b].request.lastSuccessAt = clock,
                                ![b].request.receivedAt = clock]
    /\ UNCHANGED clock
    /\ IF r.hooks.onSuccess
       THEN /\ disp' = [Kept EXCEPT ![d] = [WithLog(r1, "success") EXCEPT !.pc = "succHook"]]
            /\ deferred' = LiveDeferred
       ELSE ResolveSuccess(d, r1)

\* variant: the hook is called whether or not the header is there
CallsOnNewChangeSetAlways(resp, hooks) == hooks.onNewChangeSet

\* lines 697-698: is onNewChangeSet called for this response
CallsOnNewChangeSet(resp, hooks) == resp.force # "" /\ hooks.onNewChangeSet

\* the awaited api(...) call settles
Respond(d, resp, rollbackThrows, failOutcome) ==
    LET me == [disp[d] EXCEPT !.resp = resp] IN
    /\ disp[d].pc = "inflight"
    /\ IF resp.kind = "ok"
       THEN /\ rollbackThrows = FALSE /\ failOutcome = "nothing"
            /\ IF CallsOnNewChangeSet(resp, me.hooks)
               THEN /\ disp' = [Kept EXCEPT ![d] =
                            [WithLog(me, "newChangeSet") EXCEPT !.pc = "ctxHook",
                                                                !.ctxArg = resp.force]]
                    /\ debs' = LiveDebs
                    /\ deferred' = LiveDeferred
                    /\ UNCHANGED clock
               ELSE MarkReceived(d, me)
       ELSE CatchBlock(d, me, AxiosErrOf(resp), rollbackThrows, failOutcome)
    /\ UNCHANGED <<table, objs, nDisp, kvars>>

\* the awaited onNewChangeSet settles
CtxHookDone(d, throws, rollbackThrows, failOutcome) ==
    /\ disp[d].pc = "ctxHook"
    /\ IF throws
       THEN CatchBlock(d, WithLog(disp[d], "newChangeSetThrew"), HookErr,
                       rollbackThrows, failOutcome)
       ELSE /\ rollbackThrows = FALSE /\ failOutcome = "nothing"
            /\ MarkReceived(d, WithLog(disp[d], "newChangeSetDone"))
    /\ UNCHANGED <<table, objs, nDisp, kvars>>

\* the awaited onSuccess settles
SuccHookDone(d, throws, rollbackThrows, failOutcome) ==
    /\ disp[d].pc = "succHook"
    /\ IF throws
       THEN CatchBlock(d, WithLog(disp[d], "successThrew"), HookErr,
                       rollbackThrows, failOutcome)
       ELSE /\ rollbackThrows = FALSE /\ failOutcome = "nothing"
            /\ ResolveSuccess(d, WithLog(disp[d], "successDone"))
            /\ debs' = LiveDebs
            /\ UNCHANGED clock
    /\ UNCHANGED <<table, objs, nDisp, kvars>>

(***************************************************************************)
(* A deduplicated caller: fireActionResult resumes once the promise it was  *)
(* handed settles, then wrappedActionFn returns                             *)
(***************************************************************************)
Return(d) ==
    LET me == disp[d]
        triggerResult == deferred[me.awaiting]
    IN
    /\ me.pc = "dedupWait"
    /\ triggerResult.resolves > 0
    /\ disp' = [Kept EXCEPT ![d] = [me EXCEPT !.pc = "done", !.raw = SetResult(triggerResult)]]
    /\ debs' = LiveDebs
    /\ deferred' = LiveDeferred
    /\ UNCHANGED <<table, objs, clock, nDisp, kvars>>

\* variant: a failed result carries the error only
resultWithoutStatus(raw) ==
    IF ~raw.set
    THEN [threw |-> TRUE, success |-> FALSE, data |-> "", errKind |-> "none",
          hasErrBody |-> FALSE, errBody |-> "", statusCode |-> 0]
    ELSE IF raw.rawSuccess
    THEN [threw |-> FALSE, success |-> TRUE, data |-> raw.rawResponseData, errKind |-> "none",
          hasErrBody |-> FALSE, errBody |-> "", statusCode |-> 0]
    ELSE [threw |-> FALSE, success |-> FALSE, data |-> "", errKind |-> raw.rawResponseError.kind,
          hasErrBody |-> FALSE, errBody |-> "", statusCode |-> 0]

\* ApiRequest.result
result(raw) ==
    IF ~raw.set
    THEN [threw |-> TRUE, success |-> FALSE, data |-> "", errKind |-> "none",
          hasErrBody |-> FALSE, errBody |-> "", statusCode |-> 0]
    ELSE IF raw.rawSuccess
    THEN [threw |-> FALSE, success |-> TRUE, data |-> raw.rawResponseData, errKind |-> "none",
          hasErrBody |-> FALSE, errBody |-> "", statusCode |-> 0]
    ELSE LET e == raw.rawResponseError
             ax == e.kind = "axios" /\ e.hasResponse
         IN  [threw |-> FALSE, success |-> FALSE, data |-> "", errKind |-> e.kind,
              hasErrBody |-> ax,
              errBody |-> IF ax THEN e.data ELSE "",
              statusCode |-> IF ax THEN e.status ELSE 0]

(***************************************************************************)
(* Read side: getRequestStatus, clearRequestStatus                          *)
(***************************************************************************)
KeyArgLists == {<< >>}

\* the ApiRequestStatus getters of ApiRequestDebouncer
Status(req) ==
    [isRequested |-> req.exists,
     isFirstLoad |-> req.exists /\ req.receivedAt = 0 /\ req.lastSuccessAt = 0,
     isPending |-> req.exists /\ req.receivedAt = 0,
     isError |-> req.exists /\ req.error.kind # "none",
     isSuccess |-> req.exists /\ req.receivedAt # 0 /\ req.error.kind = "none",
     \* error.data.error.message, else what the response's body and statusText give
     errorMessage |-> CASE ~req.exists \/ req.error.kind = "none" -> "absent"
                        [] req.error.kind = "synthesized" -> req.error.data
                        [] OTHER -> "ofResponse",
     \* error.data.error.type
     errorCode |-> CASE ~req.exists \/ req.error.kind \in {"none", "synthesized"} -> "absent"
                     [] OTHER -> "ofResponse"]

\* the status a reader of `key` sees
StatusOfKey(key) ==
    IF key \in DOMAIN table THEN Status(debs[table[key]].request) ELSE Status(NoRequest)

getRequestStatus(requestKey, keyedByArgs) ==
    LET fullKey == getKey(requestKey, keyedByArgs) IN
    /\ table' = TableWith(fullKey)
    /\ debs' = DebsWith(fullKey)
    /\ disp' = Kept
    /\ deferred' = LiveDeferred
    /\ UNCHANGED <<objs, clock, nDisp, kvars>>

clearRequestStatus(requestKey, keyedByArgs) ==
    LET fullKey == getKey(requestKey, keyedByArgs) IN
    /\ table' = [k \in DOMAIN table \ {fullKey} |-> table[k]]
    /\ debs' = LiveDebs
    /\ disp' = Kept
    /\ deferred' = LiveDeferred
    /\ UNCHANGED <<objs, clock, nDisp, kvars>>

Next ==
    \/ \E spec \in Descriptors, o \in DispIds, body \in Bodies, ot \in BOOLEAN :
          nDisp < MaxDispatch /\ Dispatch(spec, o, body, ot) /\ UNCHANGED conflicts
    \/ \E d \in DispIds, resp \in Responses, rt \in BOOLEAN, fo \in FailOutcomes :
          Respond(d, resp, rt, fo) /\ UNCHANGED conflicts
    \/ \E d \in DispIds, t \in BOOLEAN, rt \in BOOLEAN, fo \in FailOutcomes :
          CtxHookDone(d, t, rt, fo) /\ UNCHANGED conflicts
    \/ \E d \in DispIds, t \in BOOLEAN, rt \in BOOLEAN, fo \in FailOutcomes :
          SuccHookDone(d, t, rt, fo) /\ UNCHANGED conflicts
    \/ \E d \in DispIds : Return(d) /\ UNCHANGED conflicts

Spec == Init /\ [][Next]_vars

\* FairSpec: Spec, where the transport answers every call it was handed, every awaited
\* hook settles, and a caller whose awaited promise has settled resumes
Progress ==
    \/ \E d \in DispIds, resp \in Responses, rt \in BOOLEAN, fo \in FailOutcomes :
          Respond(d, resp, rt, fo) /\ UNCHANGED conflicts
    \/ \E d \in DispIds, t \in BOOLEAN, rt \in BOOLEAN, fo \in FailOutcomes :
          CtxHookDone(d, t, rt, fo) /\ UNCHANGED conflicts
    \/ \E d \in DispIds, t \in BOOLEAN, rt \in BOOLEAN, fo \in FailOutcomes :
          SuccHookDone(d, t, rt, fo) /\ UNCHANGED conflicts
    \/ \E d \in DispIds : Return(d) /\ UNCHANGED conflicts

FairSpec == Init /\ [][Next]_vars /\ WF_vars(Progress)

KeyInit ==
    /\ table = << >>
    /\ debs = [b \in DebIds |-> NoDeb]
    /\ disp = [d \in DispIds |-> NewDisp]
    /\ objs = [o \in DispIds |-> NoObj]
    /\ deferred = [d \in DispIds |-> NoDeferred]
    /\ clock = 1
    /\ nDisp = 0
    /\ kArgs \in KeyInputs
    /\ kOut = NoKeys
    /\ kPair = NoPair
    /\ conflicts = << >>
    /\ api = NoApi
    /\ auth = NoAuth

ComputeKeys ==
    /\ ~kOut.computed
    /\ kOut' = [computed |-> TRUE,
                tracking |-> getTrackingKey(kArgs.actionName, KeyByOf(kArgs)),
                read |-> getKey(kArgs.actionName, kArgs.args)]
    /\ UNCHANGED <<kArgs, kPair, api, auth, dvars>>

KeyNext == ComputeKeys

KeySpec == KeyInit /\ [][KeyNext]_vars

\* the key functions applied to two requests
KeyPairInit ==
    /\ table = << >>
    /\ debs = [b \in DebIds |-> NoDeb]
    /\ disp = [d \in DispIds |-> NewDisp]
    /\ objs = [o \in DispIds |-> NoObj]
    /\ deferred = [d \in DispIds |-> NoDeferred]
    /\ clock = 1
    /\ nDisp = 0
    /\ kArgs \in PairInputs
    /\ kOut = NoKeys
    /\ kPair \in [args : PairInputs, tracking : {""}, read : {""}]
    /\ conflicts = << >>
    /\ api = NoApi
    /\ auth = NoAuth

ComputePairKeys ==
    /\ ~kOut.computed
    /\ kOut' = [computed |-> TRUE,
                tracking |-> getTrackingKey(kArgs.actionName, KeyByOf(kArgs)),
                read |-> getKey(kArgs.actionName, kArgs.args)]
    /\ kPair' = [kPair EXCEPT
                    !.tracking = getTrackingKey(kPair.args.actionName, KeyByOf(kPair.args)),
                    !.read = getKey(kPair.args.actionName, kPair.args.args)]
    /\ UNCHANGED <<kArgs, api, auth, dvars>>

KeyPairNext == ComputePairKeys

KeyPairSpec == KeyPairInit /\ [][KeyPairNext]_vars

\* the same machine with the read side of the store, for actions whose
\* descriptions carry no hooks (no awaited hook ever settles there)
StoreDescriptors == { spec \in Descriptors : \A h \in DOMAIN spec.hooks : ~spec.hooks[h] }
StoreNext ==
    \/ \E spec \in StoreDescriptors, o \in DispIds, body \in Bodies, ot \in BOOLEAN :
          nDisp < MaxStoreDispatch /\ Dispatch(spec, o, body, ot) /\ UNCHANGED conflicts
    \/ \E d \in DispIds, resp \in Responses, rt \in BOOLEAN, fo \in FailOutcomes :
          Respond(d, resp, rt, fo) /\ UNCHANGED conflicts
    \/ \E d \in DispIds : Return(d) /\ UNCHANGED conflicts
    \/ \E a \in ActionNames, args \in KeyArgLists : getRequestStatus(a, args) /\ UNCHANGED conflicts
    \/ \E a \in ActionNames, args \in KeyArgLists : clearRequestStatus(a, args) /\ UNCHANGED conflicts

StoreSpec == Init /\ [][StoreNext]_vars

(***************************************************************************)
(* ConflictSpec: the debouncer together with the registry of conflicts kept *)
(* for retry (ConflictsForRetry, RETRY_CONFLICT).  Every caller builds its  *)
(* own ApiRequest; only a retry dispatches a kept one again.                *)
(***************************************************************************)
Conflict409 == [kind |-> "http", status |-> 409, force |-> "", data |-> "errbody"]
ConflictResponses == Responses \cup {Conflict409}

\* the failure class kept for retry
IsConflict(resp) == resp.kind = "http" /\ resp.status = 409

\* the description call r was made with
DescriptorOf(r) ==
    CHOOSE s \in Descriptors :
        s.hooks = r.hooks /\ getTrackingKey(s.actionName, s.keyBy) = r.key

\* record(requestId, label, descriptor): ConflictsForRetry[requestUlid] = [label, ApiRequest]
record(reg, requestUlid, label, spec, o) ==
    (requestUlid :> [label |-> label, spec |-> spec, obj |-> o]) @@ reg

\* the transport answers; a call that resolves with a conflict is kept for retry
RespondAndRecord(d, resp, rollbackThrows, failOutcome) ==
    /\ Respond(d, resp, rollbackThrows, failOutcome)
    /\ conflicts' =
          IF IsConflict(resp) /\ disp'[d].pc = "done"
          THEN record(conflicts, disp[d].ulid, disp[d].key, DescriptorOf(disp[d]), disp[d].obj)
          ELSE conflicts

\* retry(requestId): look the entry up, remove it, dispatch its description again
RETRY_CONFLICT(requestUlid, optThrows) ==
    LET entry == conflicts[requestUlid] IN
    /\ requestUlid \in DOMAIN conflicts
    /\ conflicts' = [u \in DOMAIN conflicts \ {requestUlid} |-> conflicts[u]]
    /\ Dispatch(entry.spec, entry.obj, objs[entry.obj].body, optThrows)

ConflictNext ==
    \/ \E spec \in Descriptors, body \in Bodies, ot \in BOOLEAN :
          /\ nDisp < MaxConflictDispatch
          /\ Dispatch(spec, nDisp + 1, body, ot) /\ UNCHANGED conflicts
    \/ \E d \in DispIds, resp \in ConflictResponses, rt \in BOOLEAN, fo \in FailOutcomes :
          RespondAndRecord(d, resp, rt, fo)
    \/ \E d \in DispIds, t \in BOOLEAN, rt \in BOOLEAN, fo \in FailOutcomes :
          CtxHookDone(d, t, rt, fo) /\ UNCHANGED conflicts
    \/ \E d \in DispIds, t \in BOOLEAN, rt \in BOOLEAN, fo \in FailOutcomes :
          SuccHookDone(d, t, rt, fo) /\ UNCHANGED conflicts
    \/ \E u \in DispIds, ot \in BOOLEAN :
          nDisp < MaxConflictDispatch /\ RETRY_CONFLICT(u, ot)

ConflictSpec == Init /\ [][ConflictNext]_vars

(***************************************************************************)
(* EdgeSpec: the debouncer with descriptions that may lack a target, onFail *)
(* hooks that may be declared async, and store actions that are not async.  *)
(* Every caller builds its own ApiRequest.                                  *)
(***************************************************************************)
\* the two profiles of Spec, and an action that supplies onFail alone
EdgeHookProfiles ==
    HookProfiles \cup
    { [optimistic |-> FALSE, onNewChangeSet |-> FALSE, onSuccess |-> FALSE, onFail |-> TRUE] }
EdgeDescriptors ==
    [actionName : ActionNames, keyBy : KeyBys, hooks : EdgeHookProfiles, url : EdgeUrls]

\* what a store action that is not declared async can return
ActionResults == {"ApiRequest", "plain", "undefined"}

\* variant: the wrapper of a non-async action hands back whatever the action returned
nonAsyncActionUnguarded(actionResult) ==
    LET d == nDisp + 1 IN
    /\ d \in DispIds
    /\ nDisp' = d
    /\ disp' = [Kept EXCEPT ![d] =
            [NewDisp EXCEPT !.pc = "done", !.actionResult = actionResult, !.ret = actionResult]]
    /\ debs' = LiveDebs
    /\ deferred' = LiveDeferred
    /\ UNCHANGED <<table, objs, clock, kvars>>

\* lines 416-428: the wrapper installed for an action that is not declared async
nonAsyncAction(actionResult) ==
    LET d == nDisp + 1 IN
    /\ d \in DispIds
    /\ nDisp' = d
    /\ disp' = [Kept EXCEPT ![d] =
            IF actionResult = "ApiRequest"
            THEN [NewDisp EXCEPT !.pc = "threw", !.thrown = "ApiActions must be async!",
                                 !.actionResult = actionResult]
            ELSE [NewDisp EXCEPT !.pc = "done", !.actionResult = actionResult,
                                 !.ret = actionResult]]
    /\ debs' = LiveDebs
    /\ deferred' = LiveDeferred
    /\ UNCHANGED <<table, objs, clock, kvars>>

\* the promise an async onFail returned settles; nothing in triggerApiRequest waits for it
OnFailSettles(d) ==
    /\ disp[d].failWork = "running"
    /\ disp' = [Kept EXCEPT ![d].failWork = "done"]
    /\ debs' = LiveDebs
    /\ deferred' = LiveDeferred
    /\ UNCHANGED <<table, objs, clock, nDisp, kvars>>

EdgeNext ==
    \/ \E spec \in EdgeDescriptors, body \in Bodies, ot \in BOOLEAN :
          /\ nDisp < MaxEdgeDispatch
          /\ Dispatch(spec, nDisp + 1, body, ot) /\ UNCHANGED conflicts
    \/ \E d \in DispIds, resp \in Responses, rt \in BOOLEAN, fo \in AsyncFailOutcomes :
          Respond(d, resp, rt, fo) /\ UNCHANGED conflicts
    \/ \E d \in DispIds, t \in BOOLEAN, rt \in BOOLEAN, fo \in AsyncFailOutcomes :
          CtxHookDone(d, t, rt, fo) /\ UNCHANGED conflicts
    \/ \E d \in DispIds, t \in BOOLEAN, rt \in BOOLEAN, fo \in AsyncFailOutcomes :
          SuccHookDone(d, t, rt, fo) /\ UNCHANGED conflicts
    \/ \E d \in DispIds : OnFailSettles(d) /\ UNCHANGED conflicts
    \/ \E v \in ActionResults :
          nDisp < MaxEdgeDispatch /\ nonAsyncAction(v) /\ UNCHANGED conflicts

EdgeSpec == Init /\ [][EdgeNext]_vars

(***************************************************************************)
(* ApiSpec: one call through one of the axios clients                       *)
(***************************************************************************)
ApiInit ==
    /\ table = << >>
    /\ debs = [b \in DebIds |-> NoDeb]
    /\ disp = [d \in DispIds |-> NewDisp]
    /\ objs = [o \in DispIds |-> NoObj]
    /\ deferred = [d \in DispIds |-> NoDeferred]
    /\ clock = 1
    /\ nDisp = 0
    /\ kArgs = NoKeyArgs
    /\ kOut = NoKeys
    /\ kPair = NoPair
    /\ conflicts = << >>
    /\ api \in ApiInputs
    /\ auth = NoAuth

\* the request interceptors run and the call goes out
SendRequest ==
    /\ api.phase = "built"
    /\ api' = [api EXCEPT !.phase = "sent",
                          !.config = IF "injectBearerTokenAuth" \in RequestInterceptors(api.client)
                                     THEN injectBearerTokenAuth(api.config, api.tokens, api.selected)
                                     ELSE api.config]
    /\ UNCHANGED <<kArgs, kOut, kPair, auth, dvars>>

\* the answer arrives: axios settles the call, then the response interceptors run
SettleResponse ==
    LET settled == IF api.answer.hasResponse /\ validateStatus(api.validate, api.answer.status)
                   THEN [NoEffects EXCEPT !.outcome = "fulfilled"]
                   ELSE [NoEffects EXCEPT !.outcome = "rejected"]
    IN
    /\ api.phase = "sent"
    /\ api' = [api EXCEPT !.phase = "settled",
                          !.fx = RunChain(ResponseInterceptors(api.client), api.answer, settled)]
    /\ UNCHANGED <<kArgs, kOut, kPair, auth, dvars>>

ApiNext == SendRequest \/ SettleResponse

ApiSpec == ApiInit /\ [][ApiNext]_vars

(***************************************************************************)
(* CallSpec: the axios call built for one description                       *)
(***************************************************************************)
CallInit ==
    /\ table = << >>
    /\ debs = [b \in DebIds |-> NoDeb]
    /\ disp = [d \in DispIds |-> NewDisp]
    /\ objs = [o \in DispIds |-> NoObj]
    /\ deferred = [d \in DispIds |-> NoDeferred]
    /\ clock = 1
    /\ nDisp = 0
    /\ kArgs = NoKeyArgs
    /\ kOut = NoKeys
    /\ kPair = NoPair
    /\ conflicts = << >>
    /\ api \in { [NoApi EXCEPT !.phase = "described", !.desc = desc] : desc \in CallDescriptions }
    /\ auth = NoAuth

\* new ApiRequest(desc), then the api(...) call of triggerApiRequest
BuildCall ==
    /\ api.phase = "described"
    /\ api' = [api EXCEPT !.phase = "called", !.call = apiCall(ApiRequestOf(api.desc))]
    /\ UNCHANGED <<kArgs, kOut, kPair, auth, dvars>>

CallNext == BuildCall

CallSpec == CallInit /\ [][CallNext]_vars

(***************************************************************************)
(* AuthSpec: the auth store's token bookkeeping                             *)
(***************************************************************************)
AuthInit ==
    /\ table = << >>
    /\ debs = [b \in DebIds |-> NoDeb]
    /\ disp = [d \in DispIds |-> NewDisp]
    /\ objs = [o \in DispIds |-> NoObj]
    /\ deferred = [d \in DispIds |-> NoDeferred]
    /\ clock = 1
    /\ nDisp = 0
    /\ kArgs = NoKeyArgs
    /\ kOut = NoKeys
    /\ kPair = NoPair
    /\ conflicts = << >>
    /\ api = NoApi
    \* a page load: an empty store, and whatever an earlier session left in local storage
    /\ auth \in { [NoAuth EXCEPT !.stored = s] : s \in Storages }

\* initFromStorage, with what awaiting RESTORE_AUTH gives
initFromStorage(out) ==
    LET parsed == ParsedTokens(auth.stored)
        op == [NoOp EXCEPT !.op = "initFromStorage"]
        patched == [auth EXCEPT !.tokens = patchTokens(auth.tokens, parsed),
                                !.userPk = user_pk(parsed[1].token)]
        called == [op EXCEPT !.calls = <<"RESTORE_AUTH">>, !.hadStored = TRUE,
                             !.outcome = IF out.threw THEN "threw"
                                         ELSE IF out.success THEN "success" ELSE "failure"]
        errMessage == IF out.hasErrBody THEN out.message ELSE "absent"
        errCode == IF out.hasErrBody THEN out.code ELSE "absent"
    IN
    /\ auth' =
          IF parsed = << >> THEN [auth EXCEPT !.last = op]
          ELSE IF out.threw THEN [patched EXCEPT !.last = [called EXCEPT !.threw = TRUE]]
          ELSE IF out.success THEN [patched EXCEPT !.last = called]
          ELSE IF errCode = "WORKSPACE_NOT_INITIALIZED"
          THEN [patched EXCEPT !.last = [called EXCEPT !.calls = Append(@, "AUTH_RECONNECT")]]
          \* errMessage.includes(...) on undefined
          ELSE IF errMessage = "absent"
          THEN [patched EXCEPT !.last = [called EXCEPT !.threw = TRUE]]
          ELSE IF NamesMissingRelation(errMessage)
          THEN [patched EXCEPT !.last = [called EXCEPT !.alert = TRUE]]
          \* this.localLogout(): redirectToAuthPortal takes its default, true
          ELSE [LoggedOut(patched) EXCEPT
                   !.last = [called EXCEPT !.loggedOut = TRUE, !.redirected = TRUE]]
    /\ UNCHANGED <<kArgs, kOut, kPair, api, dvars>>

localLogout(redirectToAuthPortal) ==
    /\ auth' = [LoggedOut(auth) EXCEPT
                   !.last = [NoOp EXCEPT !.op = "localLogout", !.loggedOut = TRUE,
                                         !.redirected = redirectToAuthPortal]]
    /\ UNCHANGED <<kArgs, kOut, kPair, api, dvars>>

finishUserLogin(workspace_pk, token) ==
    LET merged == patchTokens(auth.tokens, AssignKey(auth.tokens, workspace_pk, token)) IN
    /\ auth' = [auth EXCEPT !.tokens = merged,
                            !.userPk = user_pk(token),
                            !.stored = Stringified(merged),
                            !.last = [NoOp EXCEPT !.op = "finishUserLogin"]]
    /\ UNCHANGED <<kArgs, kOut, kPair, api, dvars>>

AuthNext ==
    \/ \E out \in RestoreOutcomes : initFromStorage(out)
    \/ \E redirectToAuthPortal \in BOOLEAN : localLogout(redirectToAuthPortal)
    \/ \E pk \in AuthPks, token \in AuthTokens : finishUserLogin(pk, token)

AuthSpec == AuthInit /\ [][AuthNext]_vars

TypeOK ==
    /\ nDisp \in 0..MaxDispatch
    /\ \A k \in DOMAIN table : debs[table[k]].built

(***************************************************************************)
(* Properties                                                               *)
(***************************************************************************)
\* a call whose caller is looking at it: returned or thrown in the last step
Fresh(d) == Finished(disp[d]) /\ ~disp[d].seen
\* a call whose hook trace is at hand: running, or Fresh
Visible(d) == disp[d].pc # "new" /\ ~disp[d].seen

Count(log, e) == Cardinality({ i \in DOMAIN log : log[i] = e })
Has(log, e) == \E i \in DOMAIN log : log[i] = e
\* e occurs in log, and before every occurrence of f
Before(log, e, f) ==
    /\ Has(log, e)
    /\ \A j \in DOMAIN log : log[j] = f => \E i \in 1..(j - 1) : log[i] = e

\* the record the debouncer of call d holds
RecordOf(d) == debs[disp[d].deb].request

HookThrew(d) ==
    \/ disp[d].thrown \in {"optimistic", "rollback", "onFail"}
    \/ Has(disp[d].log, "newChangeSetThrew")
    \/ Has(disp[d].log, "successThrew")

\* C1: a dispatch that arrives while the key's record is pending, with params
\* deep-equal to those of the pending call, makes no transport call of its own
\* and awaits the pending call's completion signal.
C1_Dedup ==
    \A d \in DispIds :
        (disp[d].pc # "new" /\ disp[d].found # 0 /\ disp[d].foundEqual)
            => (disp[d].ulid = 0 /\ disp[d].awaiting = disp[d].found)

\* C2: every tracking key has at most one transport call issued and not yet
\* completed.
C2_AtMostOneInFlight ==
    \A d, e \in DispIds :
        (disp[d].pc = "inflight" /\ disp[e].pc = "inflight" /\ disp[d].key = disp[e].key)
            => d = e

\* C3: a dispatch that arrives while the key's record is pending with different
\* params is not deduplicated: it gets its own record and completion signal and
\* issues its own transport call, the pending call had its own too, and while
\* it is the latest call on its debouncer the record holds its payload and its
\* completion signal.
LatestOn(b) ==
    LET C == { e \in DispIds : Running(disp[e]) /\ disp[e].deb = b /\ disp[e].ulid = e }
    IN  IF C = {} THEN 0 ELSE CHOOSE e \in C : \A f \in C : f <= e
C3_NonDedup ==
    \A d \in DispIds :
        (disp[d].pc # "new" /\ disp[d].found # 0 /\ ~disp[d].foundEqual)
            => /\ disp[d].ulid = d
               /\ disp[disp[d].found].ulid = disp[d].found
               /\ (Visible(d) /\ disp[d].thrown # "optimistic")
                     => (disp[d].awaiting = d /\ Has(disp[d].log, "call"))
               /\ (Running(disp[d]) /\ LatestOn(disp[d].deb) = d /\ nDisp = d)
                     => (RecordOf(d).completed = d /\ RecordOf(d).payload = disp[d].obj)
C3_Witness ==
    \E d \in DispIds :
        /\ disp[d].found # 0 /\ ~disp[d].foundEqual
        /\ disp[d].pc = "inflight" /\ disp[disp[d].found].pc = "inflight"
        /\ RecordOf(d).completed = d

\* the physical call failed / the dispatch left through the catch block
CallFailed(d) == disp[d].resp.kind \in {"http", "network"}
TookFailurePath(d) ==
    \/ CallFailed(d)
    \/ Has(disp[d].log, "newChangeSetThrew")
    \/ Has(disp[d].log, "successThrew")

HookEvents == {"optimistic", "call", "newChangeSet", "success", "rollback", "fail"}
Ordered(log, rank) ==
    \A i, j \in DOMAIN log :
        (i < j /\ log[i] \in HookEvents /\ log[j] \in HookEvents) => rank[log[i]] < rank[log[j]]

\* C5 as stated: optimisticMutation, the physical call, the context-switch
\* hook, the success hook or the failure hook, then the rollback.
StatedRank ==
    [e \in HookEvents |->
        CASE e = "optimistic" -> 1 [] e = "call" -> 2 [] e = "newChangeSet" -> 3
          [] e = "success" -> 4 [] e = "fail" -> 4 [] OTHER -> 5]
C5_HookOrder == \A d \in DispIds : Visible(d) => Ordered(disp[d].log, StatedRank)

\* C5 as amended: optimisticMutation, the physical call, the context-switch
\* hook, the success hook, and on the failure path the rollback and only then
\* the failure hook (which also follows a success hook that threw).
CodeRank ==
    [e \in HookEvents |->
        CASE e = "optimistic" -> 1 [] e = "call" -> 2 [] e = "newChangeSet" -> 3
          [] e = "success" -> 4 [] e = "rollback" -> 5 [] OTHER -> 6]
C5_HookOrderRollbackFirst ==
    \A d \in DispIds : Visible(d) => Ordered(disp[d].log, CodeRank)
C5_Witness ==
    \E d \in DispIds :
        /\ Fresh(d) /\ CallFailed(d)
        /\ Before(disp[d].log, "optimistic", "call")
        /\ Before(disp[d].log, "rollback", "fail") /\ Has(disp[d].log, "fail")

C7_NetworkErrorResult ==
    \A d \in DispIds :
        (Fresh(d) /\ disp[d].resp.kind = "network" /\ ~HookThrew(d))
            => /\ disp[d].pc = "done"
               /\ ~result(disp[d].raw).threw /\ ~result(disp[d].raw).success
               /\ disp[d].replaced \/ RecordOf(d).error.kind = "synthesized"

\* C8: onNewChangeSet is invoked only for a successful response carrying the
\* force_change_set_id header, with the header's value; when the description
\* has the hook such a response always invokes it, and the hook has settled
\* before this call marks the record received and before onSuccess is invoked.
C8_ContextSwitchAwaited ==
    \A d \in DispIds :
        Visible(d)
            => LET log == disp[d].log
                   forced == disp[d].resp.kind = "ok" /\ disp[d].resp.force # ""
               IN
               /\ Has(log, "newChangeSet") => (forced /\ disp[d].ctxArg = disp[d].resp.force)
               /\ (forced /\ disp[d].hooks.onNewChangeSet) => Has(log, "newChangeSet")
               /\ disp[d].pc = "ctxHook"
                     => (~Has(log, "received") /\ ~Has(log, "success") /\ ~Has(log, "resolve"))
               /\ (Has(log, "newChangeSet") /\ Has(log, "received"))
                     => \/ Before(log, "newChangeSetDone", "received")
                        \/ Before(log, "newChangeSetThrew", "received")
               /\ (Has(log, "newChangeSet") /\ Has(log, "success"))
                     => Before(log, "newChangeSetDone", "success")
C8_Witness ==
    \E d \in DispIds :
        /\ Fresh(d) /\ disp[d].resp.force = "cs-123" /\ disp[d].ctxArg = "cs-123"
        /\ Before(disp[d].log, "newChangeSetDone", "success")
        /\ disp[d].raw.rawSuccess

\* C9: the completion signal of a record is resolved exactly once, with the
\* outcome of the physical call that created the record, and the dispatcher
\* has its result set from it (here: whenever no hook throws).
C9_ResolvedExactlyOnce ==
    \A d \in DispIds :
        (Fresh(d) /\ disp[d].ulid = d /\ disp[d].resp.kind # "none" /\ ~HookThrew(d))
            => /\ deferred[d].resolves = 1
               /\ deferred[d].isError = CallFailed(d)
               /\ disp[d].raw.set
               /\ disp[d].raw.rawSuccess = ~CallFailed(d)

\* C10: the key computed at dispatch time from keyRequestStatusBy equals the
\* key the read side computes from the same discriminators in the same order.
C10_KeyAgreement == kOut.computed => kOut.tracking = kOut.read

\* the discriminators that remain once absent and empty ones are dropped
RemainingArgs(in) == Compact(in.args)
Differ(in1, in2) == in1.actionName # in2.actionName \/ RemainingArgs(in1) # RemainingArgs(in2)

\* C11: two (action id, discriminator sequence) pairs that differ after dropping
\* absent and empty discriminators get different tracking keys, on the dispatch
\* side and on the read side.
C11_KeyInjective ==
    (kOut.computed /\ Differ(kArgs, kPair.args))
        => (kOut.tracking # kPair.tracking /\ kOut.read # kPair.read)

\* the table entry of call d's key was dropped while d was running: the table
\* no longer holds the debouncer d runs on
Detached(d) == disp[d].key \notin DOMAIN table \/ table[disp[d].key] # disp[d].deb

\* C12: when clearRequestStatus dropped the key's entry while call d was pending
\* and d then completes, the table holds a record for the key again and the
\* key's status shows d's outcome.
C12_ClearThenComplete ==
    \A d \in DispIds :
        (Fresh(d) /\ disp[d].pc = "done" /\ disp[d].ulid = d /\ Detached(d))
            => /\ disp[d].key \in DOMAIN table
               /\ LET st == StatusOfKey(disp[d].key) IN
                  /\ st.isRequested /\ ~st.isPending
                  /\ st.isSuccess = disp[d].raw.rawSuccess
                  /\ st.isError = ~disp[d].raw.rawSuccess

\* C13: a dispatch that fails with HTTP status 409 (no hook throwing) returns
\* {success: false, err, statusCode: 409} and the registry then holds, under its
\* request ulid, a label and the description it was made with; an entry leaves
\* the registry only in a step that dispatches it again.
ConflictKept(d) ==
    /\ disp[d].ulid \in DOMAIN conflicts
    /\ LET entry == conflicts[disp[d].ulid] IN
       /\ entry.label = disp[d].key
       /\ entry.spec.hooks = disp[d].hooks
       /\ getTrackingKey(entry.spec.actionName, entry.spec.keyBy) = disp[d].key
       /\ entry.obj = disp[d].obj
IsRetryOf(u) ==
    /\ nDisp' = nDisp + 1
    /\ disp'[nDisp'].pc # "new"
    /\ disp'[nDisp'].obj = conflicts[u].obj
Keys == { getTrackingKey(a, kb) : a \in ActionNames, kb \in KeyBys }
\* some call on the key has had its answer marked received (lines 715, 736)
EverReceived(key) == \E d \in DispIds : disp[d].key = key /\ disp[d].marked # "none"
\* some call on the key has had a successful answer marked (lines 714-715)
EverSucceeded(key) == \E d \in DispIds : disp[d].key = key /\ disp[d].marked \in {"ok", "okfail"}
HasRecord(key) == key \in DOMAIN table /\ debs[table[key]].request.exists

\* C15 as stated: for a key with a record, isFirstLoad is true exactly when no
\* call for the key has ever reached receivedAt.
C15_FirstLoadIffNeverReceived ==
    \A key \in Keys :
        HasRecord(key) => (StatusOfKey(key).isFirstLoad <=> ~EverReceived(key))

\* C15 as amended: isFirstLoad is true exactly when the key's record is pending
\* and no successful answer has ever been received for the key; it is false for
\* a key without a record.
C15_FirstLoadIffPendingNeverSucceeded ==
    \A key \in Keys :
        /\ StatusOfKey(key).isFirstLoad
              <=> (HasRecord(key) /\ StatusOfKey(key).isPending /\ ~EverSucceeded(key))
        /\ ~HasRecord(key) => ~StatusOfKey(key).isFirstLoad
C15_Witness ==
    \E key \in Keys :
        /\ HasRecord(key) /\ StatusOfKey(key).isPending
        /\ EverReceived(key) /\ ~EverSucceeded(key)
        /\ StatusOfKey(key).isFirstLoad

\* the status every reader sees for a key without a record
IdleStatus ==
    [isRequested |-> FALSE, isFirstLoad |-> FALSE, isPending |-> FALSE, isError |-> FALSE,
     isSuccess |-> FALSE, errorMessage |-> "absent", errorCode |-> "absent"]
\* the step is a read of some key's status
IsStatusRead == \E a \in ActionNames, args \in KeyArgLists : getRequestStatus(a, args)
PcOf(d) == disp[d].pc

\* C16: a read of a key's status starts no call, moves no call forward and
\* leaves every key's projected status as it was; a key without a record
\* projects every flag false and no errorMessage / errorCode.
C16_StatusReadIsPure ==
    /\ [](\A key \in Keys : ~HasRecord(key) => StatusOfKey(key) = IdleStatus)
    /\ [][IsStatusRead
            => /\ nDisp' = nDisp
               /\ \A d \in DispIds : PcOf(d)' = PcOf(d)
               /\ \A key \in Keys : StatusOfKey(key)' = StatusOfKey(key)]_vars
\* a read has put an empty debouncer in the table
C16_Witness ==
    \E key \in Keys :
        key \in DOMAIN table /\ ~debs[table[key]].request.exists /\ StatusOfKey(key) = IdleStatus

LastSuccessAt(key) == debs[table[key]].request.lastSuccessAt
\* in this step a call on the key has its successful answer marked (lines 714-715)
SuccessMarked(key) ==
    \E d \in DispIds : disp[d].key = key /\ disp[d].marked = "none" /\ disp'[d].marked = "ok"

\* C17: once a successful answer has been received for a key, the key's record
\* has lastSuccessAt; it stays present over every later dispatch and failure
\* and changes only in a step that marks a later success, to that step's time.
C17_LastSuccessPersists ==
    /\ [](\A key \in Keys : EverSucceeded(key) => (HasRecord(key) /\ LastSuccessAt(key) # 0))
    /\ [][\A key \in Keys :
            (HasRecord(key) /\ LastSuccessAt(key) # 0)
                => /\ HasRecord(key)'
                   /\ LastSuccessAt(key)' # 0
                   /\ LastSuccessAt(key)' # LastSuccessAt(key)
                         => (SuccessMarked(key) /\ LastSuccessAt(key)' = clock
                             /\ LastSuccessAt(key)' > LastSuccessAt(key))]_vars
\* a failure received after a success, on a record created after that success
C17_Witness ==
    \E key \in Keys :
        /\ HasRecord(key) /\ LastSuccessAt(key) # 0
        /\ debs[table[key]].request.error.kind # "none"
        /\ debs[table[key]].request.requestedAt >= LastSuccessAt(key)

\* call d is the latest call made on its key
LatestCall(d) == disp[d].pc # "new" /\ \A e \in DispIds : disp[e].key = disp[d].key => e <= d

\* C18: whenever the most recently dispatched call of a key has completed
\* successfully, the key's record has receivedAt set and no error, and the
\* status projects isSuccess = true and isError = false.
C18_NoErrorOnSuccess ==
    \A d \in DispIds :
        (LatestCall(d) /\ disp[d].pc = "done" /\ disp[d].raw.rawSuccess)
            => /\ HasRecord(disp[d].key)
               /\ debs[table[disp[d].key]].request.receivedAt # 0
               /\ debs[table[disp[d].key]].request.error = NoError
               /\ StatusOfKey(disp[d].key).isSuccess
               /\ ~StatusOfKey(disp[d].key).isError

\* C19: a dispatch that arrives while the key's record is pending, with params
\* deep-equal to the pending call's, triggers no hook of its own, issues no
\* call and opens no trace span.
C19_NoDuplicateHooks ==
    \A d \in DispIds :
        (Visible(d) /\ disp[d].found # 0 /\ disp[d].foundEqual)
            => (disp[d].log = << >> /\ disp[d].span = "none" /\ ~disp[d].rollbackFn)

\* call d is between its optimisticMutation and the resolution of its
\* completion signal
InHooks(d) ==
    /\ Running(disp[d]) /\ disp[d].ulid = d
    /\ Has(disp[d].log, "optimistic") /\ ~Has(disp[d].log, "resolve")

\* C20: a dispatch that arrives on a key while another call of that key (here:
\* one with different params) has not resolved its completion signal does not
\* start hooks of its own: no two calls of a key are between optimisticMutation
\* and resolution together.
C20_NoConcurrentHooks ==
    \A d, e \in DispIds :
        (d # e /\ disp[d].key = disp[e].key /\ disp[d].found = e /\ ~disp[d].foundEqual)
            => ~(InHooks(d) /\ InHooks(e))

\* C21 -- Failure hook awaited: when the physical call has failed and onFail is
\* asynchronous, the work onFail started has completed by the time the completion
\* signal is resolved and by the time the dispatching action returns to its caller.
C21_FailureHookAwaited ==
    \A d \in DispIds :
        /\ Visible(d)
        /\ Has(disp[d].log, "fail")
        /\ (deferred[d].resolves > 0 \/ Finished(disp[d]))
        => disp[d].failWork # "running"

\* call e created a new record on d's key while d's record was pending, with other params
Supersedes(e, d) ==
    /\ disp[e].found = d
    /\ disp[e].ulid = e
    /\ ~disp[e].foundEqual
Superseded(d) == \E e \in DispIds : Supersedes(e, d)

\* C22 -- Superseded call still completes: a call whose pending record was replaced by a
\* dispatch with a different payload still gets its own answer; on completion it invokes
\* its own onSuccess, or its own rollback and onFail, and what its caller receives is the
\* outcome of its own physical call.
C22_SupersededCompletes ==
    \A d \in DispIds :
        Fresh(d) /\ Superseded(d) =>
            LET me == disp[d]
                res == result(me.raw)
                ownOk == me.resp.kind = "ok" /\ ~Has(me.log, "newChangeSetThrew")
                                             /\ ~Has(me.log, "successThrew")
            IN  /\ me.resp # NoResponse
                /\ Count(me.log, "call") = 1
                /\ (me.resp.kind = "ok" /\ me.hooks.onSuccess /\ ~Has(me.log, "newChangeSetThrew"))
                      => Count(me.log, "success") = 1
                /\ CallFailed(d) =>
                      /\ me.rollbackFn => Count(me.log, "rollback") = 1
                      /\ (me.hooks.onFail /\ me.thrown # "rollback") => Count(me.log, "fail") = 1
                      /\ ~Has(me.log, "success")
                /\ me.pc = "done" =>
                      /\ ~res.threw
                      /\ res.success <=> ownOk
                      /\ res.success => res.data = me.resp.data
                      /\ (me.resp.kind = "http" /\ ~me.replaced) =>
                            res.statusCode = me.resp.status /\ res.errBody = me.resp.data
                /\ deferred[d].resolves > 0 =>
                      /\ deferred[d].resolves = 1
                      /\ deferred[d].isError <=> ~ownOk

\* the second call has succeeded and returned; the first then fails with its own status
C22_Witness ==
    \E d, e \in DispIds :
        /\ Fresh(d) /\ Supersedes(e, d)
        /\ disp[e].pc = "done" /\ disp[e].raw.rawSuccess
        /\ disp[d].pc = "done" /\ disp[d].resp.kind = "http"
        /\ Has(disp[d].log, "rollback") /\ Has(disp[d].log, "fail")
        /\ ~result(disp[d].raw).success

\* a call that has just come back from a description without a target
MissingTarget(d) == Fresh(d) /\ disp[d].url = "missing" /\ disp[d].thrown # "optimistic"

NonAsyncCall(d) == Fresh(d) /\ disp[d].actionResult # ""

\* C24 -- Non-async action guard: a store action that is not declared async and returns an
\* ApiRequest raises "ApiActions must be async!"; no physical call is dispatched and no
\* record, debouncer or completion signal is created.  A non-async action that returns
\* anything else has that value returned unchanged.
C24_NonAsyncGuard ==
    /\ [](\A d \in DispIds :
            NonAsyncCall(d) =>
                /\ disp[d].actionResult = "ApiRequest" =>
                      /\ disp[d].pc = "threw"
                      /\ disp[d].thrown = "ApiActions must be async!"
                /\ disp[d].actionResult # "ApiRequest" =>
                      /\ disp[d].pc = "done"
                      /\ disp[d].ret = disp[d].actionResult
                /\ ~Has(disp[d].log, "call")
                /\ disp[d].span = "none"
                /\ disp[d].ulid = 0
                /\ ~deferred[d].created)
    /\ [][\A d \in DispIds :
            (NonAsyncCall(d))' /\ ~NonAsyncCall(d) =>
                /\ table' = table
                /\ debs' = LiveDebs
                /\ objs' = objs]_vars

C24_Witness ==
    \E d \in DispIds :
        /\ NonAsyncCall(d)
        /\ disp[d].actionResult = "ApiRequest"
        /\ disp[d].thrown = "ApiActions must be async!"

\* C25 -- Result availability: reading ApiRequest.result while the call has not completed
\* raises an error; once the wrapped action has returned normally the result is defined,
\* with success = true and the data exactly when the shared outcome carries no error, and
\* with success = false and the error otherwise, for the caller whose dispatch made the
\* physical call and for a deduplicated caller alike.
C25_ResultAvailability ==
    \A d \in DispIds :
        LET me == disp[d]
            res == result(me.raw)
            out == deferred[me.awaiting]
        IN  /\ Running(me) => res.threw
            /\ (Fresh(d) /\ me.pc = "done") =>
                  /\ ~res.threw
                  /\ out.resolves > 0
                  /\ res.success <=> ~out.isError
                  /\ res.success => res.data = out.data /\ res.errKind = "none"
                  /\ ~res.success => res.errKind = out.err.kind /\ res.errKind # "none"

\* a deduplicated caller that has returned with the failure its dispatcher met
C25_Witness ==
    \E d \in DispIds :
        /\ Fresh(d) /\ disp[d].pc = "done"
        /\ disp[d].awaiting # d
        /\ ~result(disp[d].raw).threw
        /\ ~result(disp[d].raw).success
        /\ result(disp[d].raw).errKind = "axios"

\* C26 -- Rollback failure propagates: when the rollback closure throws after a failed
\* call, the exception reaches the caller of the dispatching action; no {failure} result
\* is built, onFail is not called and the completion signal is not resolved.
C26_RollbackFailurePropagates ==
    \A d \in DispIds :
        Fresh(d) /\ disp[d].rollbackThrew =>
            /\ disp[d].pc = "threw"
            /\ disp[d].thrown = "rollback"
            /\ result(disp[d].raw).threw
            /\ ~Has(disp[d].log, "fail")
            /\ ~Has(disp[d].log, "resolve")
            /\ deferred[d].resolves = 0

\* the physical call failed with status 500 and the rollback then threw
C26_Witness ==
    \E d \in DispIds :
        /\ Fresh(d) /\ disp[d].rollbackThrew
        /\ disp[d].resp.kind = "http"
        /\ Has(disp[d].log, "rollback")
        /\ disp[d].thrown = "rollback"

\* C27 -- Span lifecycle: a span is opened exactly for the calls that reach the transport,
\* and when such a call comes back to its caller (no caller-supplied hook having thrown)
\* its span has been ended and carries an http.status_code attribute, whether the call
\* succeeded, failed with an HTTP error response or failed with no response.
C27_SpanLifecycle ==
    \A d \in DispIds :
        Visible(d) =>
            /\ (disp[d].span # "none") <=> Count(disp[d].log, "call") = 1
            /\ (Fresh(d) /\ disp[d].span # "none" /\ ~HookThrew(d)) =>
                  /\ disp[d].span = "ended"
                  /\ disp[d].spanStatus # -1

\* an answer with a response that has been through the SDF client's interceptors
ThroughSdfChain == api.phase = "settled" /\ api.client = "sdf" /\ api.answer.hasResponse

\* C28 -- Proxy-timeout classification: a response that has passed through the SDF client's
\* interceptor chain has produced the api_404_timeout telemetry event and scheduled the
\* delayed redirect exactly when its status is 404 and its content type is not
\* application/json.
C28_ProxyTimeoutClassified ==
    ThroughSdfChain =>
        ((api.answer.status = 404 /\ api.answer.contentType # "application/json")
            <=> (api.fx.tracked = <<"api_404_timeout">> /\ api.fx.redirect))

\* an answer axios turned into an error, after the SDF client's interceptors
SdfError ==
    /\ api.phase = "settled"
    /\ api.client = "sdf"
    /\ ~(api.answer.hasResponse /\ validateStatus(api.validate, api.answer.status))

\* C29 -- Status-class paths: an error response of status 500 raises the generic-failure
\* toast, 503 the maintenance-mode toast, 502 or 504 the unscheduled-downtime toast, any
\* other error (one without a response included) none; never more than one of them; and the
\* call stays rejected, so the debouncer's catch block runs.
C29_StatusClassPaths ==
    SdfError =>
        /\ api.fx.toasts =
              CASE api.answer.hasResponse /\ api.answer.status = 500 -> <<"FiveHundredError">>
                [] api.answer.hasResponse /\ api.answer.status = 503 -> <<"MaintenanceMode">>
                [] api.answer.hasResponse /\ api.answer.status \in {502, 504}
                      -> <<"UnscheduledDowntime">>
                [] OTHER -> << >>
        /\ Len(api.fx.toasts) <= 1
        /\ api.fx.outcome = "rejected"
        /\ api.fx.tracked = << >> /\ ~api.fx.redirect

C29_Witness ==
    /\ SdfError
    /\ api.answer.status = 502
    /\ api.fx.toasts = <<"UnscheduledDowntime">>
    /\ api.fx.outcome = "rejected"

\* the call has left the client
Outgoing == api.phase \in {"sent", "settled"}
\* the selected workspace's token if one is stored, otherwise the first stored token
ChosenTokens ==
    LET ofSelected == { TokenOf(api.tokens[i]) :
                          i \in { j \in DOMAIN api.tokens : api.tokens[j] = api.selected } }
    IN  IF ofSelected # {} THEN ofSelected
        ELSE { TokenOf(api.tokens[i]) : i \in DOMAIN api.tokens \cap {1} }

\* C30 -- Bearer injection: every outgoing call through the SDF, auth and module-index
\* clients carries the authorization header "Bearer <token>", the token being the selected
\* workspace's if one is stored and the first stored token otherwise.
C30_BearerInjection ==
    Outgoing => \E t \in ChosenTokens : api.config.authorization = "Bearer " \o t

\* C30, amended: the same whenever the auth store holds a token; with no token stored the
\* call goes out without an authorization header.
C30_BearerInjectionWhenStored ==
    Outgoing =>
        IF api.tokens = << >>
        THEN api.config.authorization = ""
        ELSE \E t \in ChosenTokens : api.config.authorization = "Bearer " \o t

\* two tokens stored, the workspace of the second selected
C30_Witness ==
    /\ Outgoing
    /\ Len(api.tokens) = 2
    /\ api.selected = api.tokens[2]
    /\ api.config.authorization = "Bearer " \o TokenOf(api.tokens[2])

C32_ReplacementErrorBody ==
    \A d \in DispIds :
        (Fresh(d) /\ CallFailed(d) /\ disp[d].thrown \notin {"rollback", "onFail"}) =>
            LET me == disp[d]
                res == result(me.raw)
                error == RecordOf(d).error
            IN  /\ me.replaced =>
                      /\ me.pc = "done"
                      /\ error = [kind |-> "response", status |-> me.resp.status,
                                  data |-> "replacement"]
                      /\ res.hasErrBody /\ res.errBody = "replacement"
                      /\ res.statusCode = me.resp.status
                /\ (~me.replaced /\ me.resp.kind = "http") =>
                      /\ error = [kind |-> "response", status |-> me.resp.status,
                                  data |-> me.resp.data]
                      /\ res.hasErrBody /\ res.errBody = me.resp.data
                      /\ res.statusCode = me.resp.status
                /\ (~me.replaced /\ me.resp.kind = "network") =>
                      error.kind = "synthesized"

\* a call without a response whose onFail returned a body
C32_Witness ==
    \E d \in DispIds :
        /\ Fresh(d) /\ disp[d].resp.kind = "network"
        /\ disp[d].replaced
        /\ result(disp[d].raw).errBody = "replacement"
        /\ RecordOf(d).error.data = "replacement"

\* how many of the three flags a status has set
FlagsSet(st) ==
    (IF st.isPending THEN 1 ELSE 0) + (IF st.isSuccess THEN 1 ELSE 0)
        + (IF st.isError THEN 1 ELSE 0)

\* C33 -- Status trichotomy: in every reachable state, for every key that has a record,
\* exactly one of isPending, isSuccess, isError is true; and the record holds an error
\* only if its receivedAt is set.
C33_StatusTrichotomy ==
    \A key \in DOMAIN table :
        LET req == debs[table[key]].request IN
        req.exists =>
            /\ FlagsSet(Status(req)) = 1
            /\ req.error.kind # "none" => req.receivedAt # 0

\* a later call is still in flight on a record that the failure of an earlier,
\* superseded call has marked received and failed
C33_Witness ==
    \E d \in DispIds :
        /\ disp[d].pc = "inflight"
        /\ RecordOf(d).completed = d
        /\ StatusOfKey(disp[d].key).isError
        /\ ~StatusOfKey(disp[d].key).isPending
        /\ ~StatusOfKey(disp[d].key).isSuccess

\* C34 -- Pending reflects the latest call: while the physical call most recently
\* dispatched for a key is in flight, the key's status has isPending = true; the record
\* that dispatch created has neither receivedAt nor error set by the completion of an
\* earlier, superseded call.
C34_PendingReflectsLatest ==
    \A d \in DispIds :
        (disp[d].pc = "inflight" /\ RecordOf(d).completed = d) =>
            /\ StatusOfKey(disp[d].key).isPending
            /\ RecordOf(d).receivedAt = 0
            /\ RecordOf(d).error.kind = "none"

\* C35 -- Every pending record resolves: given that the transport answers every call and
\* every hook settles, the completion signal created with a pending record is eventually
\* resolved and every caller waiting on it eventually resumes, whatever the optimistic
\* function, onNewChangeSet, onSuccess, onFail or the rollback do, throwing included.
C35_EveryPendingResolves ==
    \A d \in DispIds :
        /\ deferred[d].created ~> deferred[d].resolves > 0
        /\ Running(disp[d]) ~> Finished(disp[d])

\* no call on this key is under way
Quiet(key) == \A d \in DispIds : disp[d].key = key => ~Running(disp[d])
\* some call on this key has handed result.success = true to its caller
DeliveredSuccess(key) ==
    \E d \in DispIds :
        disp[d].key = key /\ disp[d].pc = "done" /\ disp[d].raw.set /\ disp[d].raw.rawSuccess

\* C36 -- Success bookkeeping agrees with the result: once the calls made on a key have
\* all come back, the key's record has lastSuccessAt set only if one of them delivered
\* result.success = true; in particular a call whose onNewChangeSet or onSuccess threw,
\* and which therefore reported no success, has not left lastSuccessAt set.
C36_SuccessBookkeeping ==
    \A key \in DOMAIN table :
        (Quiet(key) /\ debs[table[key]].request.exists /\ LastSuccessAt(key) # 0)
            => DeliveredSuccess(key)

\* C37 -- Rejected dispatch leaves no trace: when a dispatch has been rejected because its
\* description names no target, the key has not entered Pending on its account (the
\* debouncer's record is not the one this dispatch created) and an optimistic mutation it
\* applied has been rolled back.
C37_RejectedLeavesNoTrace ==
    \A d \in DispIds :
        MissingTarget(d) =>
            /\ ~(RecordOf(d).exists /\ RecordOf(d).completed = d)
            /\ ~StatusOfKey(disp[d].key).isPending
            /\ Has(disp[d].log, "optimistic") => Has(disp[d].log, "rollback")

\* what an earlier session left in local storage, read as initFromStorage reads it
PersistedTokens == ParsedTokens(auth.stored)
\* the endings of initFromStorage after a failed RESTORE_AUTH
EndedInReconnect == Has(auth.last.calls, "AUTH_RECONNECT")
EndedInAlert == auth.last.alert
EndedInLogout == auth.last.loggedOut

\* C38 -- Session restore fallback: initFromStorage that found no stored tokens has issued no
\* call and left the tokens and the user as they were; initFromStorage that found tokens and
\* saw RESTORE_AUTH fail has ended in exactly one of AUTH_RECONNECT, the migration alert and
\* localLogout, and after the localLogout ending the tokens are empty and userPk is null.
C38_SessionRestoreFallback ==
    /\ [](auth.last.op = "initFromStorage" =>
            /\ ~auth.last.hadStored => auth.last.calls = << >>
            /\ (auth.last.hadStored /\ auth.last.outcome = "failure") =>
                  /\ \/ EndedInReconnect /\ ~EndedInAlert /\ ~EndedInLogout
                     \/ ~EndedInReconnect /\ EndedInAlert /\ ~EndedInLogout
                     \/ ~EndedInReconnect /\ ~EndedInAlert /\ EndedInLogout
                  /\ EndedInLogout => (auth.tokens = << >> /\ auth.userPk = "null"))
    /\ [][((\E out \in RestoreOutcomes : initFromStorage(out)) /\ PersistedTokens = << >>) =>
            /\ auth'.tokens = auth.tokens
            /\ auth'.userPk = auth.userPk
            /\ auth'.stored = auth.stored]_vars

\* a token map as the set of its entries
Entries(tokens) == { tokens[i] : i \in DOMAIN tokens }

\* C39 -- Token store consistency: finishUserLogin leaves the new token under its workspace
\* key beside every token held before it, for another workspace, and the persisted tokens
\* equal to the in-memory ones; after localLogout both are empty and userIsLoggedIn is false;
\* after any of finishUserLogin, localLogout and initFromStorage the persisted and the
\* in-memory tokens are the same.
C39_TokenStoreConsistency ==
    /\ [](/\ auth.last.op # "none" => Entries(PersistedTokens) = Entries(auth.tokens)
          /\ auth.last.op = "localLogout" =>
                /\ auth.tokens = << >>
                /\ PersistedTokens = << >>
                /\ ~userIsLoggedIn(auth))
    /\ [][\A pk \in AuthPks, token \in AuthTokens :
            finishUserLogin(pk, token) =>
                /\ [pk |-> pk, token |-> token] \in Entries(auth'.tokens)
                /\ \A e \in Entries(auth.tokens) : e.pk # pk => e \in Entries(auth'.tokens)
                /\ Entries(ParsedTokens(auth'.stored)) = Entries(auth'.tokens)]_vars

====
